---- MODULE Spec2Model ----
(***************************************************************************)
(* The concurrent fetch / reduce / aggregate pipeline of                   *)
(* fixed_script_with_comments.go: a dispatcher goroutine feeding an index  *)
(* queue, numWorkers worker goroutines, a closer goroutine (wg.Wait then   *)
(* close(results)), the aggregator collectResults and the top-level select *)
(* of main, all racing one deadline context.                               *)
(*                                                                         *)
(* A select is one step that takes any case that is ready when the         *)
(* goroutine evaluates it (Go chooses among ready cases at random, and a   *)
(* goroutine may reach its select arbitrarily late).  log.Fatalf and       *)
(* os.Exit end the whole process: no goroutine steps afterwards.           *)
(*                                                                         *)
(* Weights are modelled as integers (the float32 sums of the model's       *)
(* weights are exact), coordinates as integers far from the int limits.    *)
(***************************************************************************)
EXTENDS Integers, Sequences, FiniteSets, TLC

\* ---------------------------------------------------------------- bounds
MaxN == 2
MaxW == 2

\* ------------------------------------------------------ program constants
ResultsCap == 100
HeavyThreshold == 100
CheckInterval == 1000
MathMaxInt == 2147483647
MathMinInt == (-2147483647) - 1

NilPolygon == -1
NoError == "nil"

\* ------------------------------------------------------------ input data
Pt(x, y, w) == [X |-> x, Y |-> y, Weight |-> w]

\* The polygons the remote server may answer with: an empty one, one just below
\* the heavy threshold, one exactly on it (its second point lowers Y1 and raises
\* X2), and one of negative weight (its second point lowers X1 and raises Y2).
Polygons ==
  { << >>,
    << Pt(1, 3, 99) >>,
    << Pt(1, 3, 99), Pt(2, 1, 1) >>,
    << Pt(2, 1, -1), Pt(-1, 2, 0) >> }

\* What one GET can yield: a decoded polygon, or a transport/status/decode failure.
HttpFailure == [status |-> "failed", Points |-> << >>]

HttpOk(pts) == [status |-> "ok", Points |-> pts]

NotFetched == [status |-> "none", Points |-> << >>]

Responses == { HttpOk(pts) : pts \in Polygons } \cup {HttpFailure}

\* A request made on a context that is already done fails in client.Do.
HttpResponses(done) == IF done THEN {HttpFailure} ELSE Responses

\* ------------------------------------------------------- pure functions
MinInt(a, b) == IF a < b THEN a ELSE b

MaxInt(a, b) == IF a > b THEN a ELSE b

MaxFloat32(a, b) == IF a > b THEN a ELSE b

ZeroBbox == [X1 |-> 0, Y1 |-> 0, X2 |-> 0, Y2 |-> 0]

ErrResult(e) ==
  [localBbox |-> ZeroBbox, weight |-> 0, isHeavy |-> FALSE,
   polygon |-> NilPolygon, err |-> e]

\* IsHeavy with a strict threshold.
IsHeavy_Strict(sumWeight) == sumWeight > HeavyThreshold

IsHeavy(sumWeight) == sumWeight >= HeavyThreshold

FirstPointBbox(pts) ==
  [X1 |-> pts[1].X, Y1 |-> pts[1].Y, X2 |-> pts[1].X, Y2 |-> pts[1].Y]

\* The loop of processPolygon from (0-based) element i on; cancelled is what
\* ctx.Err() # nil yields at the loop's polls.
RECURSIVE ReduceLoop(_, _, _, _, _, _)
ReduceLoop(pts, ref, i, bbox, sumWeight, cancelled) ==
  IF i >= Len(pts)
  THEN [localBbox |-> bbox, weight |-> sumWeight, isHeavy |-> IsHeavy(sumWeight),
        polygon |-> ref, err |-> NoError]
  ELSE IF i % CheckInterval = 0 /\ cancelled
  THEN ErrResult("ctx")
  ELSE ReduceLoop(pts, ref, i + 1,
                  [X1 |-> MinInt(bbox.X1, pts[i + 1].X),
                   Y1 |-> MinInt(bbox.Y1, pts[i + 1].Y),
                   X2 |-> MaxInt(bbox.X2, pts[i + 1].X),
                   Y2 |-> MaxInt(bbox.Y2, pts[i + 1].Y)],
                  sumWeight + pts[i + 1].Weight, cancelled)

EmptyPolygonResult(ref) ==
  [localBbox |-> ZeroBbox, weight |-> 0, isHeavy |-> FALSE,
   polygon |-> ref, err |-> NoError]

\* processPolygon that, on cancellation, returns what it has reduced so far
\* as a success outcome.
processPolygon_Partial(pts, ref, cancelled) ==
  IF Len(pts) = 0
  THEN EmptyPolygonResult(ref)
  ELSE IF cancelled
  THEN [localBbox |-> FirstPointBbox(pts), weight |-> 0, isHeavy |-> FALSE,
        polygon |-> ref, err |-> NoError]
  ELSE ReduceLoop(pts, ref, 0, FirstPointBbox(pts), 0, FALSE)

processPolygon(pts, ref, cancelled) ==
  IF Len(pts) = 0
  THEN EmptyPolygonResult(ref)
  ELSE ReduceLoop(pts, ref, 0, FirstPointBbox(pts), 0, cancelled)

fetchAndProcessPolygon(resp, ref, cancelled) ==
  IF resp.status # "ok"
  THEN ErrResult("http")
  ELSE processPolygon(resp.Points, ref, cancelled)

InitialResult ==
  [Bbox |-> [X1 |-> MathMaxInt, Y1 |-> MathMaxInt,
             X2 |-> MathMinInt, Y2 |-> MathMinInt],
   MaxWeight |-> 0,
   HeavyPolygons |-> << >>]

\* UnionBbox that overwrites the running box with the latest local box.
UnionBbox_Overwrite(g, l) == l

UnionBbox(g, l) ==
  [X1 |-> MinInt(g.X1, l.X1), Y1 |-> MinInt(g.Y1, l.Y1),
   X2 |-> MaxInt(g.X2, l.X2), Y2 |-> MaxInt(g.Y2, l.Y2)]

FoldHeavy(heavy, pr) ==
  IF pr.isHeavy THEN Append(heavy, pr.polygon) ELSE heavy

\* One success outcome folded into the running Result (collectResults 292-303).
FoldOutcome(res, pr) ==
  [Bbox |-> UnionBbox(res.Bbox, pr.localBbox),
   MaxWeight |-> MaxFloat32(res.MaxWeight, pr.weight),
   HeavyPolygons |-> FoldHeavy(res.HeavyPolygons, pr)]

\* CountsAsProcessed without the `continue` of the error branch.
CountsAsProcessed_NoContinue(pr) == TRUE

\* Does the aggregator count this outcome (collectResults 285-289, 305)?
CountsAsProcessed(pr) == pr.err = NoError

\* FatalCause that never looks at the recorded polygon error.
FatalCause_IgnoreError(perr, done) ==
  IF done THEN "fatalTimeout" ELSE "fatalUnknown"

\* The cause collectResults names when the channel closed early (316-323).
FatalCause(perr, done) ==
  IF perr # NoError THEN "fatalPolygon"
  ELSE IF done THEN "fatalTimeout"
  ELSE "fatalUnknown"

\* WaitReturns with one worker not registered in the WaitGroup.
WaitReturns_OneShort(counter) == counter <= 1

\* wg.Wait() returns once every worker has called wg.Done().
WaitReturns(counter) == counter = 0

\* ------------------------------------------------------------------ state
VARIABLES
  polygonsNum,      \* flag -polygons_num
  numWorkers,       \* flag -workers
  ctxDone,          \* the deadline context has fired
  firedEarly,       \* the deadline fired while processed < polygonsNum
  indices,          \* buffered index channel (capacity polygonsNum)
  indicesClosed,
  di,               \* dispatcher loop counter i
  dpc,              \* dispatcher: "loop" | "done"
  wpc,              \* worker: "select" | "fetch" | "reduce" | "emit" | "exited"
  widx,             \* index a worker holds
  wout,             \* PolygonResult a worker is emitting
  wg,               \* sync.WaitGroup counter
  fetched,          \* the polygon (or failure) the server returned per index
  results,          \* buffered outcome channel
  resultsClosed,
  apc,              \* aggregator: "recv" | "send" | "returned"
  result,           \* aggregator's running Result
  processed,
  processingError,
  mpc,              \* main: "select" | "timeoutLogged" | "gotResult" | "returned"
  mainResult,       \* the Result main received from resCh
  log,              \* terminal reports made so far, in order
  exitStatus        \* "running" | "exit0" | "exit1"

vars == << polygonsNum, numWorkers, ctxDone, firedEarly, indices, indicesClosed, di, dpc,
           wpc, widx, wout, wg, fetched, results, resultsClosed,
           apc, result, processed, processingError,
           mpc, mainResult, log, exitStatus >>

Workers == 1..numWorkers

Running == exitStatus = "running"

NoOutcome == ErrResult(NoError)

Init ==
  /\ polygonsNum \in 0..MaxN
  /\ numWorkers \in 0..MaxW
  /\ ctxDone = FALSE
  /\ firedEarly = FALSE
  /\ indices = << >>
  /\ indicesClosed = FALSE
  /\ di = 0
  /\ dpc = "loop"
  /\ wpc = [w \in 1..numWorkers |-> "select"]
  /\ widx = [w \in 1..numWorkers |-> -1]
  /\ wout = [w \in 1..numWorkers |-> NoOutcome]
  /\ wg = numWorkers
  /\ fetched = [i \in 0..(polygonsNum - 1) |-> NotFetched]
  /\ results = << >>
  /\ resultsClosed = FALSE
  /\ apc = "recv"
  /\ result = InitialResult
  /\ processed = 0
  /\ processingError = NoError
  /\ mpc = "select"
  /\ mainResult = InitialResult
  /\ log = << >>
  /\ exitStatus = "running"

\* ------------------------------------------------------ deadline controller
DeadlineFires ==
  /\ Running
  /\ ~ctxDone
  /\ ctxDone' = TRUE
  /\ firedEarly' = (processed < polygonsNum)
  /\ UNCHANGED << polygonsNum, numWorkers, indices, indicesClosed, di, dpc,
                  wpc, widx, wout, wg, fetched, results, resultsClosed,
                  apc, result, processed, processingError,
                  mpc, mainResult, log, exitStatus >>

\* --------------------------------------------------------------- dispatcher
\* DispatchSend that forgets to advance the loop counter.
DispatchSend_NoIncrement ==
  /\ Running
  /\ dpc = "loop"
  /\ di < polygonsNum
  /\ Len(indices) < polygonsNum
  /\ indices' = Append(indices, di)
  /\ UNCHANGED << polygonsNum, numWorkers, ctxDone, firedEarly, indicesClosed, di, dpc,
                  wpc, widx, wout, wg, fetched, results, resultsClosed,
                  apc, result, processed, processingError,
                  mpc, mainResult, log, exitStatus >>

DispatchSend ==
  /\ Running
  /\ dpc = "loop"
  /\ di < polygonsNum
  /\ Len(indices) < polygonsNum
  /\ indices' = Append(indices, di)
  /\ di' = di + 1
  /\ UNCHANGED << polygonsNum, numWorkers, ctxDone, firedEarly, indicesClosed, dpc,
                  wpc, widx, wout, wg, fetched, results, resultsClosed,
                  apc, result, processed, processingError,
                  mpc, mainResult, log, exitStatus >>

\* DispatchCancel that closes the index queue and stays in the loop.
DispatchCancel_NoReturn ==
  /\ Running
  /\ dpc = "loop"
  /\ di < polygonsNum
  /\ ctxDone
  /\ indicesClosed' = TRUE
  /\ UNCHANGED << polygonsNum, numWorkers, ctxDone, firedEarly, indices, di, dpc,
                  wpc, widx, wout, wg, fetched, results, resultsClosed,
                  apc, result, processed, processingError,
                  mpc, mainResult, log, exitStatus >>

DispatchCancel ==
  /\ Running
  /\ dpc = "loop"
  /\ di < polygonsNum
  /\ ctxDone
  /\ indicesClosed' = TRUE
  /\ dpc' = "done"
  /\ UNCHANGED << polygonsNum, numWorkers, ctxDone, firedEarly, indices, di,
                  wpc, widx, wout, wg, fetched, results, resultsClosed,
                  apc, result, processed, processingError,
                  mpc, mainResult, log, exitStatus >>

\* DispatchClose that closes the index queue before the loop has run to its end.
DispatchClose_Early ==
  /\ Running
  /\ dpc = "loop"
  /\ indicesClosed' = TRUE
  /\ dpc' = "done"
  /\ UNCHANGED << polygonsNum, numWorkers, ctxDone, firedEarly, indices, di,
                  wpc, widx, wout, wg, fetched, results, resultsClosed,
                  apc, result, processed, processingError,
                  mpc, mainResult, log, exitStatus >>

DispatchClose ==
  /\ Running
  /\ dpc = "loop"
  /\ di >= polygonsNum
  /\ indicesClosed' = TRUE
  /\ dpc' = "done"
  /\ UNCHANGED << polygonsNum, numWorkers, ctxDone, firedEarly, indices, di,
                  wpc, widx, wout, wg, fetched, results, resultsClosed,
                  apc, result, processed, processingError,
                  mpc, mainResult, log, exitStatus >>

Dispatcher == DispatchSend \/ DispatchCancel \/ DispatchClose

\* ------------------------------------------------------------------ workers
WorkerExit(w) ==
  /\ wpc' = [wpc EXCEPT ![w] = "exited"]
  /\ widx' = [widx EXCEPT ![w] = -1]
  /\ wout' = [wout EXCEPT ![w] = NoOutcome]
  /\ wg' = wg - 1

\* WorkerCancelled of a worker loop whose outer select has no ctx.Done() case.
WorkerCancelled_Never(w) ==
  /\ FALSE
  /\ wpc[w] = "select"
  /\ UNCHANGED vars

\* case <-ctx.Done() of the outer select
WorkerCancelled(w) ==
  /\ Running
  /\ wpc[w] = "select"
  /\ ctxDone
  /\ WorkerExit(w)
  /\ UNCHANGED << polygonsNum, numWorkers, ctxDone, firedEarly, indices, indicesClosed, di, dpc,
                  fetched, results, resultsClosed,
                  apc, result, processed, processingError,
                  mpc, mainResult, log, exitStatus >>

\* case idx, ok := <-indices with ok
WorkerTake(w) ==
  /\ Running
  /\ wpc[w] = "select"
  /\ indices # << >>
  /\ widx' = [widx EXCEPT ![w] = Head(indices)]
  /\ indices' = Tail(indices)
  /\ wpc' = [wpc EXCEPT ![w] = "fetch"]
  /\ UNCHANGED << polygonsNum, numWorkers, ctxDone, firedEarly, indicesClosed, di, dpc,
                  wout, wg, fetched, results, resultsClosed,
                  apc, result, processed, processingError,
                  mpc, mainResult, log, exitStatus >>

\* case idx, ok := <-indices with !ok
WorkerQueueClosed(w) ==
  /\ Running
  /\ wpc[w] = "select"
  /\ indices = << >>
  /\ indicesClosed
  /\ WorkerExit(w)
  /\ UNCHANGED << polygonsNum, numWorkers, ctxDone, firedEarly, indices, indicesClosed, di, dpc,
                  fetched, results, resultsClosed,
                  apc, result, processed, processingError,
                  mpc, mainResult, log, exitStatus >>

\* fetchAndProcessPolygon, up to the decoded body: the GET, the status check, the
\* read and the decode. A failure returns the error outcome at once.
WorkerFetch(w) ==
  /\ Running
  /\ wpc[w] = "fetch"
  /\ \E resp \in HttpResponses(ctxDone) :
       /\ fetched' = [fetched EXCEPT ![widx[w]] = resp]
       /\ IF resp.status = "ok"
          THEN /\ wpc' = [wpc EXCEPT ![w] = "reduce"]
               /\ UNCHANGED wout
          ELSE /\ wpc' = [wpc EXCEPT ![w] = "emit"]
               /\ wout' = [wout EXCEPT ![w] = fetchAndProcessPolygon(resp, widx[w], ctxDone)]
  /\ UNCHANGED << polygonsNum, numWorkers, ctxDone, firedEarly, indices, indicesClosed, di, dpc,
                  widx, wg, results, resultsClosed,
                  apc, result, processed, processingError,
                  mpc, mainResult, log, exitStatus >>

\* fetchAndProcessPolygon, the call of processPolygon on the decoded polygon
WorkerReduce(w) ==
  /\ Running
  /\ wpc[w] = "reduce"
  /\ wout' = [wout EXCEPT ![w] = fetchAndProcessPolygon(fetched[widx[w]], widx[w], ctxDone)]
  /\ wpc' = [wpc EXCEPT ![w] = "emit"]
  /\ UNCHANGED << polygonsNum, numWorkers, ctxDone, firedEarly, indices, indicesClosed, di, dpc,
                  widx, wg, fetched, results, resultsClosed,
                  apc, result, processed, processingError,
                  mpc, mainResult, log, exitStatus >>

\* WorkerEmit that goes back to the loop without sending its outcome.
WorkerEmit_Drop(w) ==
  /\ Running
  /\ wpc[w] = "emit"
  /\ wpc' = [wpc EXCEPT ![w] = "select"]
  /\ widx' = [widx EXCEPT ![w] = -1]
  /\ wout' = [wout EXCEPT ![w] = NoOutcome]
  /\ UNCHANGED << polygonsNum, numWorkers, ctxDone, firedEarly, indices, indicesClosed, di, dpc,
                  wg, fetched, results, resultsClosed,
                  apc, result, processed, processingError,
                  mpc, mainResult, log, exitStatus >>

\* case results <- polygonResult of the inner select
WorkerEmit(w) ==
  /\ Running
  /\ wpc[w] = "emit"
  /\ Len(results) < ResultsCap
  /\ results' = Append(results, wout[w])
  /\ wpc' = [wpc EXCEPT ![w] = "select"]
  /\ widx' = [widx EXCEPT ![w] = -1]
  /\ wout' = [wout EXCEPT ![w] = NoOutcome]
  /\ UNCHANGED << polygonsNum, numWorkers, ctxDone, firedEarly, indices, indicesClosed, di, dpc,
                  wg, fetched, resultsClosed,
                  apc, result, processed, processingError,
                  mpc, mainResult, log, exitStatus >>

\* case <-ctx.Done() of the inner select
WorkerAbandon(w) ==
  /\ Running
  /\ wpc[w] = "emit"
  /\ ctxDone
  /\ WorkerExit(w)
  /\ UNCHANGED << polygonsNum, numWorkers, ctxDone, firedEarly, indices, indicesClosed, di, dpc,
                  fetched, results, resultsClosed,
                  apc, result, processed, processingError,
                  mpc, mainResult, log, exitStatus >>

Worker(w) ==
  \/ WorkerCancelled(w)
  \/ WorkerTake(w)
  \/ WorkerQueueClosed(w)
  \/ WorkerFetch(w)
  \/ WorkerReduce(w)
  \/ WorkerEmit(w)
  \/ WorkerAbandon(w)

\* ------------------------------------------------------------------- closer
Closer ==
  /\ Running
  /\ ~resultsClosed
  /\ WaitReturns(wg)
  /\ resultsClosed' = TRUE
  /\ UNCHANGED << polygonsNum, numWorkers, ctxDone, firedEarly, indices, indicesClosed, di, dpc,
                  wpc, widx, wout, wg, fetched, results,
                  apc, result, processed, processingError,
                  mpc, mainResult, log, exitStatus >>

\* --------------------------------------------------------------- aggregator
\* One iteration of `for polygonResult := range results`.
AggReceive ==
  /\ Running
  /\ apc = "recv"
  /\ results # << >>
  /\ LET pr == Head(results) IN
       /\ results' = Tail(results)
       /\ IF CountsAsProcessed(pr)
          THEN /\ result' = FoldOutcome(result, pr)
               /\ processed' = processed + 1
               /\ apc' = IF processed + 1 = polygonsNum THEN "send" ELSE "recv"
               /\ UNCHANGED processingError
          ELSE /\ processingError' = pr.err
               /\ UNCHANGED << result, processed, apc >>
  /\ UNCHANGED << polygonsNum, numWorkers, ctxDone, firedEarly, indices, indicesClosed, di, dpc,
                  wpc, widx, wout, wg, fetched, resultsClosed,
                  mpc, mainResult, log, exitStatus >>

\* The range loop ends (channel closed and drained); log.Fatalf when incomplete.
AggChannelClosed ==
  /\ Running
  /\ apc = "recv"
  /\ results = << >>
  /\ resultsClosed
  /\ apc' = "returned"
  /\ IF processed < polygonsNum
     THEN /\ log' = Append(log, FatalCause(processingError, ctxDone))
          /\ exitStatus' = "exit1"
     ELSE UNCHANGED << log, exitStatus >>
  /\ UNCHANGED << polygonsNum, numWorkers, ctxDone, firedEarly, indices, indicesClosed, di, dpc,
                  wpc, widx, wout, wg, fetched, results, resultsClosed,
                  result, processed, processingError,
                  mpc, mainResult >>

Aggregator == AggReceive \/ AggChannelClosed

\* --------------------------------------------------------------------- main
\* case <-ctx.Done(): log.Printf(timeout)
MainTimeout ==
  /\ Running
  /\ mpc = "select"
  /\ ctxDone
  /\ log' = Append(log, "mainTimeout")
  /\ mpc' = "timeoutLogged"
  /\ UNCHANGED << polygonsNum, numWorkers, ctxDone, firedEarly, indices, indicesClosed, di, dpc,
                  wpc, widx, wout, wg, fetched, results, resultsClosed,
                  apc, result, processed, processingError,
                  mainResult, exitStatus >>

\* os.Exit(1)
MainExit ==
  /\ Running
  /\ mpc = "timeoutLogged"
  /\ exitStatus' = "exit1"
  /\ mpc' = "returned"
  /\ UNCHANGED << polygonsNum, numWorkers, ctxDone, firedEarly, indices, indicesClosed, di, dpc,
                  wpc, widx, wout, wg, fetched, results, resultsClosed,
                  apc, result, processed, processingError,
                  mainResult, log >>

\* case result := <-resCh, the rendezvous with the aggregator's resCh <- result
MainReceive ==
  /\ Running
  /\ mpc = "select"
  /\ apc = "send"
  /\ mainResult' = result
  /\ mpc' = "gotResult"
  /\ apc' = "returned"
  /\ UNCHANGED << polygonsNum, numWorkers, ctxDone, firedEarly, indices, indicesClosed, di, dpc,
                  wpc, widx, wout, wg, fetched, results, resultsClosed,
                  result, processed, processingError,
                  log, exitStatus >>

\* json.MarshalIndent, fmt.Println, return from main
MainPrint ==
  /\ Running
  /\ mpc = "gotResult"
  /\ log' = Append(log, "json")
  /\ exitStatus' = "exit0"
  /\ mpc' = "returned"
  /\ UNCHANGED << polygonsNum, numWorkers, ctxDone, firedEarly, indices, indicesClosed, di, dpc,
                  wpc, widx, wout, wg, fetched, results, resultsClosed,
                  apc, result, processed, processingError,
                  mainResult >>

Main == MainTimeout \/ MainExit \/ MainReceive \/ MainPrint

\* ------------------------------------------------------------ specification
Next ==
  \/ DeadlineFires
  \/ DispatchSend
  \/ DispatchCancel
  \/ DispatchClose
  \/ \E w \in Workers : WorkerCancelled(w)
  \/ \E w \in Workers : WorkerTake(w)
  \/ \E w \in Workers : WorkerQueueClosed(w)
  \/ \E w \in Workers : WorkerFetch(w)
  \/ \E w \in Workers : WorkerReduce(w)
  \/ \E w \in Workers : WorkerEmit(w)
  \/ \E w \in Workers : WorkerAbandon(w)
  \/ Closer
  \/ AggReceive
  \/ AggChannelClosed
  \/ MainTimeout
  \/ MainExit
  \/ MainReceive
  \/ MainPrint

Spec == Init /\ [][Next]_vars

\* The Go scheduler keeps running runnable goroutines: while some goroutine can
\* take a step, a step is eventually taken. The deadline timer is not forced to
\* fire. (No goroutine loops forever, so this is as strong as weak fairness of
\* each goroutine separately.)
GoroutineStep ==
  Dispatcher \/ (\E w \in Workers : Worker(w)) \/ Closer \/ Aggregator \/ Main

Fairness == WF_vars(GoroutineStep)

FairSpec == Spec /\ Fairness

\* Scheduling fairness of the worker pool and the closer alone: main and the
\* aggregator may be arbitrarily slow, or stopped.
PoolStep == (\E w \in Workers : Worker(w)) \/ Closer

PoolFairSpec == Spec /\ WF_vars(PoolStep)

\* The runs in which the deadline timer does not fire before the process ends:
\* only the steps that need no fired deadline, with the same scheduling fairness.
NextNoDeadline ==
  \/ DispatchSend
  \/ DispatchClose
  \/ \E w \in Workers : WorkerTake(w)
  \/ \E w \in Workers : WorkerQueueClosed(w)
  \/ \E w \in Workers : WorkerFetch(w)
  \/ \E w \in Workers : WorkerReduce(w)
  \/ \E w \in Workers : WorkerEmit(w)
  \/ Closer
  \/ AggReceive
  \/ AggChannelClosed
  \/ MainReceive
  \/ MainPrint

NoDeadlineSpec == Init /\ [][NextNoDeadline]_vars /\ WF_vars(NextNoDeadline)

\* ------------------------------------------------------------ observations
Range(f) == { f[k] : k \in DOMAIN f }

Indexes == 0..(polygonsNum - 1)

\* The aggregator is blocked in `resCh <- result`.
ResultOnChannel == apc = "send"

\* main holds (or has printed) the Result it received.
Delivered == mpc = "gotResult" \/ (\E k \in DOMAIN log : log[k] = "json")

Exited == exitStatus # "running"

AllFetchedOk == \A i \in Indexes : fetched[i].status = "ok"

SomeFetchFailed == \E i \in Indexes : fetched[i].status = "failed"

RECURSIVE WeightSum(_)
WeightSum(pts) == IF pts = << >> THEN 0 ELSE pts[1].Weight + WeightSum(Tail(pts))

SetMin(S) == CHOOSE x \in S : \A y \in S : x <= y

SetMax(S) == CHOOSE x \in S : \A y \in S : x >= y

\* Every point of every polygon the server returned.
AllPoints == UNION { Range(fetched[i].Points) : i \in Indexes }

EnclosingBbox(pts) ==
  [X1 |-> SetMin({ p.X : p \in pts }), Y1 |-> SetMin({ p.Y : p \in pts }),
   X2 |-> SetMax({ p.X : p \in pts }), Y2 |-> SetMax({ p.Y : p \in pts })]

\* ------------------------------------------------------------------ claims

\* C1: a Result is on the result channel, or in main's hands, only when the
\* aggregator has processed exactly polygonsNum success outcomes and has
\* consumed no failure outcome (every index was fetched and reduced without error).
C1_ResultOnlyOnFullSuccess ==
  (ResultOnChannel \/ Delivered) =>
    /\ processed = polygonsNum
    /\ processingError = NoError
    /\ AllFetchedOk

C1_Witness == ResultOnChannel /\ polygonsNum = 2 /\ numWorkers = 2

\* C2: when the process has exited (here: of a run with at least one worker),
\* exactly one terminal report (JSON result, timeout report or fatal failure
\* report) has been made.
C2_ExactlyOneReport == (Exited /\ numWorkers >= 1) => Len(log) = 1

\* C3: if the deadline fired while the aggregator had processed fewer than
\* polygonsNum outcomes, the run does not end Completed: no JSON Result is
\* printed and the exit status is nonzero.
C3_DeadlineEndsTimedOut ==
  (Exited /\ firedEarly) =>
    /\ \A k \in DOMAIN log : log[k] # "json"
    /\ exitStatus = "exit1"

\* C4: with at least one worker, for every polygonsNum >= 0, a run in which no
\* fetch or reduction fails and the deadline never fires eventually delivers
\* the Result to main (and so ends Completed).
C4_AllSucceedCompletes ==
  (numWorkers >= 1) => <>(SomeFetchFailed \/ Delivered)

\* C5: in a run whose deadline does not fire, once a polygon's fetch or decode
\* has failed no Result is delivered and the run eventually ends Failed: the
\* aggregator's polygon-failure report is the only report and the exit status
\* is nonzero.
C5_FailureEndsFailed ==
  /\ [](SomeFetchFailed => ~(ResultOnChannel \/ Delivered))
  /\ [](SomeFetchFailed /\ Exited =>
          log = << "fatalPolygon" >> /\ exitStatus = "exit1")
  /\ (SomeFetchFailed ~> Exited)

C5_Witness ==
  /\ ~ctxDone
  /\ log = << "fatalPolygon" >>
  /\ polygonsNum = 2
  /\ processed = 1

\* C6: when every polygon has at least one point, the delivered bounding box is
\* the component-wise min/max over every point of every polygon, whatever the
\* order the outcomes reached the aggregator in.
C6_GlobalBboxIsMinMax ==
  (Delivered /\ \A i \in Indexes : Len(fetched[i].Points) >= 1) =>
    mainResult.Bbox = EnclosingBbox(AllPoints)

C6_Witness ==
  /\ Delivered
  /\ polygonsNum = 2
  /\ Len(fetched[0].Points) = 2
  /\ Len(fetched[1].Points) = 2
  /\ mainResult.Bbox = [X1 |-> -1, Y1 |-> 1, X2 |-> 2, Y2 |-> 3]

\* C7: the delivered max_weight is the maximum of the polygons' weight sums
\* (an empty polygon's sum is 0), for positive, zero and negative weights.
C7_MaxWeightIsMaxOfSums ==
  Delivered =>
    mainResult.MaxWeight = SetMax({ WeightSum(fetched[i].Points) : i \in Indexes })

\* C8: the delivered heavy_polygons list holds each polygon whose weight sum is
\* >= 100 exactly once and no polygon whose weight sum is below 100.
C8_HeavyListExact ==
  Delivered =>
    LET heavy == mainResult.HeavyPolygons IN
      /\ \A j, k \in DOMAIN heavy : heavy[j] = heavy[k] => j = k
      /\ Range(heavy) = { i \in Indexes : WeightSum(fetched[i].Points) >= 100 }

C8_Witness ==
  /\ Delivered
  /\ polygonsNum = 2
  /\ \E i, j \in Indexes :
       /\ WeightSum(fetched[i].Points) = 100
       /\ WeightSum(fetched[j].Points) = 99
       /\ mainResult.HeavyPolygons = << i >>

\* C9: an empty polygon's outcome leaves the global bounding box unchanged: the
\* delivered bbox is the min/max over the points of the non-empty polygons.
C9_EmptyPolygonIsIdentity ==
  (Delivered /\ AllPoints # {}) => mainResult.Bbox = EnclosingBbox(AllPoints)

\* C10: whenever the outcome channel is closed every worker has exited: none is
\* waiting for an index, fetching, reducing or holding an outcome to emit.
C10_ClosedAfterWorkersExit ==
  resultsClosed => \A w \in Workers : wpc[w] = "exited"

C10_Witness ==
  /\ resultsClosed
  /\ Running
  /\ numWorkers = 2
  /\ results # << >>

\* A worker holds an index from taking it until it emits or abandons its outcome.
Holding(w) == wpc[w] \in {"fetch", "reduce", "emit"}

\* C11 (as claimed): whenever a worker lets go of an index it took (to take the
\* next one or to exit), that step sends the index's outcome on the outcome
\* channel, also in runs in which the deadline fires.
C11_OneOutcomePerTakenIndex ==
  [][\A w \in Workers :
       (Holding(w) /\ ~Holding(w)') => results' = Append(results, wout[w])]_vars

\* C11 (amended): a worker lets go of an index either by sending its one
\* outcome, or, only once the deadline has fired, by abandoning the emission
\* and exiting; and nothing enters the outcome channel except the one outcome
\* of a worker letting go of the index it took.
C11_AtMostOneOutcomePerTakenIndex ==
  [][/\ \A w \in Workers :
          (Holding(w) /\ ~Holding(w)') =>
            \/ results' = Append(results, wout[w])
            \/ ctxDone /\ wpc'[w] = "exited" /\ results' = results
     /\ Len(results') > Len(results) =>
          \E w \in Workers :
            /\ wpc[w] = "emit"
            /\ ~Holding(w)'
            /\ results' = Append(results, wout[w])]_vars

\* One worker emitted its outcome, the other abandoned its own after the deadline.
C11_Witness ==
  /\ polygonsNum = 2
  /\ numWorkers = 2
  /\ ctxDone
  /\ \A i \in Indexes : fetched[i].status # "none"
  /\ \A w \in Workers : wpc[w] = "exited"
  /\ Len(results) = 1
  /\ processed = 0
  /\ processingError = NoError

\* C12: every index is enqueued at most once and taken by at most one worker:
\* the queued indices and the indices workers hold are pairwise distinct, and an
\* index that is queued or just taken has never been fetched before.
C12_IndexAtMostOnce ==
  /\ \A j, k \in DOMAIN indices : indices[j] = indices[k] => j = k
  /\ \A v, w \in Workers : (Holding(v) /\ Holding(w) /\ widx[v] = widx[w]) => v = w
  /\ \A w \in Workers : Holding(w) => widx[w] \in Indexes \ Range(indices)
  /\ \A k \in DOMAIN indices : indices[k] \in Indexes /\ fetched[indices[k]].status = "none"
  /\ \A w \in Workers : wpc[w] = "fetch" => fetched[widx[w]].status = "none"

C12_Witness ==
  /\ numWorkers = 2
  /\ wpc[1] = "fetch"
  /\ wpc[2] = "fetch"
  /\ widx[1] = 1
  /\ widx[2] = 0

\* C13: once the deadline has fired the dispatcher enqueues no further index:
\* no step taken with the deadline fired advances the dispatcher's counter or
\* adds an index to the queue.
C13_NoEnqueueAfterDeadline ==
  [][ctxDone => (di' = di /\ Len(indices') <= Len(indices))]_vars

\* C14: once the deadline has fired no worker takes a further index from the
\* queue and no worker completes a further emission into the outcome channel.
C14_WorkersPreferCancellation ==
  [][ctxDone =>
       /\ \A w \in Workers : wpc[w] = "select" => wpc'[w] # "fetch"
       /\ Len(results') <= Len(results)]_vars

\* C16: the error the aggregator has recorded is the one of the first failure
\* outcome it consumed: once set, no later failure outcome replaces it.
C16_FirstErrorKept ==
  [][processingError # NoError => processingError' = processingError]_vars

FatalReports == {"fatalPolygon", "fatalTimeout", "fatalUnknown"}

\* C17: when the aggregator reports an incomplete run after the deadline fired
\* and no request failed (the only failure outcomes are reductions cancelled by
\* the deadline), the cause it reports is the timeout, not a polygon failure.
C17_CancellationReportedAsTimeout ==
  (ctxDone /\ numWorkers >= 1 /\ ~SomeFetchFailed) =>
    \A k \in DOMAIN log : log[k] \in FatalReports => log[k] = "fatalTimeout"

AllWorkersExited == \A w \in Workers : wpc[w] = "exited"

Outcomes == Range(results) \cup { wout[w] : w \in { v \in Workers : wpc[v] = "emit" } }

CompleteReduction(o) ==
  /\ o.polygon \in Indexes
  /\ fetched[o.polygon].status = "ok"
  /\ LET pts == fetched[o.polygon].Points
     IN  IF pts = << >>
         THEN o.localBbox = ZeroBbox /\ o.weight = 0 /\ ~o.isHeavy
         ELSE /\ o.localBbox = EnclosingBbox(Range(pts))
              /\ o.weight = WeightSum(pts)
              /\ o.isHeavy = (WeightSum(pts) >= HeavyThreshold)

FailureShaped(o) ==
  /\ o.localBbox = ZeroBbox
  /\ o.weight = 0
  /\ ~o.isHeavy
  /\ o.polygon = NilPolygon

\* C18: every success outcome carries the bbox, weight and heavy flag of the
\* reduction over all points of its polygon, and every failure outcome (a
\* cancelled reduction included) has no bbox, weight, heavy flag or polygon.
C18_NoPartialReduction ==
  \A o \in Outcomes :
    IF o.err = NoError THEN CompleteReduction(o) ELSE FailureShaped(o)

\* A cancelled reduction of a two-point polygon and a complete reduction of
\* another two-point polygon are both in the outcome channel.
C18_Witness ==
  /\ \E k \in DOMAIN results : results[k].err = "ctx"
  /\ \E k \in DOMAIN results :
       /\ results[k].err = NoError
       /\ Len(fetched[results[k].polygon].Points) = 2
  /\ \A i \in Indexes : fetched[i].status = "ok" /\ Len(fetched[i].Points) = 2

\* The aggregator's range loop is about to end short of polygonsNum, or has.
ClosedShort ==
  /\ resultsClosed
  /\ results = << >>
  /\ processed < polygonsNum
  /\ apc \in {"recv", "returned"}

\* C19: with at least one worker, whenever the outcome channel is closed and
\* drained with processed < polygonsNum, a failure outcome was consumed or the
\* deadline has fired, and the generic incomplete-processing report is never made.
C19_FallbackUnreachable ==
  numWorkers >= 1 =>
    /\ ClosedShort => (processingError # NoError \/ ctxDone)
    /\ \A k \in DOMAIN log : log[k] # "fatalUnknown"

\* The aggregator has ended short of polygonsNum with a worker pool, before the
\* deadline, and has reported the polygon failure.
C19_Witness ==
  /\ numWorkers >= 1
  /\ ~ctxDone
  /\ ClosedShort
  /\ apc = "returned"
  /\ \E k \in DOMAIN log : log[k] = "fatalPolygon"

\* The goroutines that may still close or send are consistent with the
\* channels' state: a dispatcher still in its loop has not closed the queue, a
\* finished one has, and a closed outcome channel has no live worker.
ChannelsConsistent ==
  /\ (dpc = "loop") = ~indicesClosed
  /\ resultsClosed => (AllWorkersExited /\ wg = 0)

\* A closed channel stays closed, receives no further element, and each close
\* is the one step of its owner (dispatcher leaving its loop; closer after Wait).
ChannelsStep ==
  /\ indicesClosed => (indicesClosed' /\ Len(indices') <= Len(indices))
  /\ resultsClosed => (resultsClosed' /\ Len(results') <= Len(results))
  /\ (~indicesClosed /\ indicesClosed') => (dpc = "loop" /\ dpc' = "done")
  /\ (~resultsClosed /\ resultsClosed') => (AllWorkersExited /\ results' = results)

\* C20: the index queue is closed once, by the dispatcher as it leaves its loop
\* on either path, and is never sent to afterwards; the outcome channel is
\* closed once, by the closer after every worker has exited, and is never sent
\* to afterwards.
C20_NoChannelMisuse == [](ChannelsConsistent) /\ [][ChannelsStep]_vars

\* Both channels are closed in a running process, the queue on the
\* dispatcher's cancelled path with indices left unsent and one still queued.
C20_Witness ==
  /\ Running
  /\ numWorkers >= 1
  /\ ctxDone
  /\ indicesClosed
  /\ di < polygonsNum
  /\ indices # << >>
  /\ resultsClosed

====
